---- MODULE Spec2Model ----
(***************************************************************************)
(* The debounced auto-save of src/src/app/projects/hooks/useDebounce.ts.   *)
(*                                                                         *)
(* useDebounce(callback, delay) keeps a ref to the latest callback and     *)
(* returns a lodash-debounced wrapper, memoized on delay, whose body calls *)
(* ref.current?.().  The state is the ref, the debounced wrappers created  *)
(* so far (each with its own timer), and a clock.  All times are in        *)
(* milliseconds; the clock advances in steps of Quantum.                   *)
(*                                                                         *)
(* Two specifications share the state:                                     *)
(*   Spec      the hook driven directly: Bind, Notify, Configure           *)
(*   FormSpec  the hook driven by the edit form: Edit                      *)
(*                                                                         *)
(* lodash's debounce is taken with its default options (trailing edge      *)
(* only): a call (re)starts the wait, and when the wait has passed with no *)
(* further call the wrapper clears its timer and runs func once.  The      *)
(* timer facility is punctual: a timer that is due fires before the clock  *)
(* moves on, though other events of the same instant may come first.       *)
(* The variables notes, calls, bound, editLog and the field had are        *)
(* histories: no operation reads them.                                     *)
(***************************************************************************)
EXTENDS Integers, Sequences, FiniteSets

\* ---------------------------------------------------------------- bounds

\* The clock stops after MaxTicks quanta (Spec), MaxFormTicks quanta (FormSpec).
MaxTicks == 3
MaxFormTicks == 4
\* At most MaxNotes calls of the debounced wrapper (notify) in a run.
MaxNotes == 2
\* At most MaxConfig changes of the delay in a run.
MaxConfig == 1
\* At most MaxEdits edit events of the form in a run.
MaxEdits == 3

\* ------------------------------------------------------------- constants

\* delay: number = 1000
DefaultDelay == 1000
\* mockProject.id
ProjectId == 1

\* The step of the clock: half the default delay.
Quantum == DefaultDelay \div 2
MaxTime == MaxTicks * Quantum
MaxFormTime == MaxFormTicks * Quantum
\* The delays a render may pass: the default and a shorter one.
Delays == {Quantum, DefaultDelay}
\* The callbacks a caller may bind: "A" returns, "B" throws.
Callbacks == {"A", "B"}
Fields == {"title", "subhead", "description"}

\* useRef<any>(): the slot is empty (<<>>) or holds one callback (<<c>>).
Unset == << >>
\* lodash's timerId of a wrapper with no timer armed.
NoTimer == -1

VARIABLES
    now,        \* the clock, in ms
    delay,      \* the delay of the latest render
    ref,        \* ref.current: Unset or <<callback>>
    debounced,  \* the wrappers useMemo has created: [wait, timerId (due
                \* instant), had (history: the slot at the latest notify)]
    form,       \* the form's displayed field values
    notes,      \* history: the notify calls [at, g, d (the delay in force),
                \* busy (a save was unfinished)]
    calls,      \* history: the runs of func [at, g, cur, arm, n, ran,
                \* ok, latest, edits, live (the component was mounted)]
    bound,      \* history: the callback of the latest bind, Unset before any
    editLog,    \* history: the edit events [at, field, value]
    saving,     \* the saves (indices of calls) updateProject has not finished
    mounted     \* whether the component using the hook is mounted

vars == <<now, delay, ref, debounced, form, notes, calls, bound, editLog,
          saving, mounted>>

\* The wrapper the latest render returned.
Current == Len(debounced)

Armed(g) == debounced[g].timerId # NoTimer

\* The number of notify calls made on wrapper g so far.
NotesOn(g) == Cardinality({ i \in 1..Len(notes) : notes[i].g = g })

TypeOK ==
    /\ now \in 0..(MaxTime + MaxFormTime)
    /\ delay \in Delays
    /\ Len(ref) <= 1
    /\ Len(debounced) \in 1..(MaxConfig + 1)
    /\ \A g \in 1..Len(debounced) :
          /\ debounced[g].wait \in Delays
          /\ debounced[g].timerId \in {NoTimer} \cup 0..(MaxTime + MaxFormTime + DefaultDelay)
    /\ Len(notes) <= MaxNotes + MaxEdits
    /\ Len(bound) <= 1

\* ------------------------------------------------------------ operations

\* The project the form was opened with.
InitialForm == [f \in Fields |-> 0]

\* Mutant: creating the wrapper also calls it once, arming its timer.
DebounceCalled(d) == [wait |-> d, timerId |-> d, had |-> Unset]

\* Mutant: the wrapper waits the default delay whatever delay was passed.
DebounceDefault(d) == [wait |-> DefaultDelay, timerId |-> NoTimer, had |-> Unset]

\* debounce(func, delay): a new wrapper, waiting delay, with no timer armed.
Debounce(d) == [wait |-> d, timerId |-> NoTimer, had |-> Unset]

Init ==
    /\ now = 0
    /\ delay \in Delays
    /\ ref = Unset
    /\ debounced = << Debounce(delay) >>
    /\ form = InitialForm
    /\ notes = << >>
    /\ calls = << >>
    /\ bound = Unset
    /\ editLog = << >>
    /\ saving = {}
    /\ mounted = TRUE

\* Mutant: no dependency list, so every render creates a new wrapper.
UseMemoAlways(ds, prev, d) == Append(ds, Debounce(d))

\* useMemo(() => debounce(func, delay), [delay]): the memoized wrapper is kept
\* while the dependency is unchanged, else a new wrapper is created.  The
\* wrapper replaced is not cancelled: its timer, if armed, stays armed.
UseMemo(ds, prev, d) ==
    IF d = prev THEN ds ELSE Append(ds, Debounce(d))

\* Mutant: the effect runs on mount only, so the slot keeps its first callback.
BindRefOnce(cur, callback) == IF cur = Unset THEN << callback >> ELSE cur

\* useEffect(() => { ref.current = callback }, [callback])
BindRef(cur, callback) == << callback >>

\* bind: a render with a new callback and the delay unchanged.
Bind(callback) ==
    /\ debounced' = UseMemo(debounced, delay, delay)
    /\ ref' = BindRef(ref, callback)
    /\ bound' = << callback >>
    /\ UNCHANGED <<now, delay, form, notes, calls, editLog, saving, mounted>>

\* configure: a render with another delay and the callback unchanged.
Configure(d) ==
    /\ d # delay
    /\ Len(debounced) <= MaxConfig
    /\ debounced' = UseMemo(debounced, delay, d)
    /\ delay' = d
    /\ UNCHANGED <<now, ref, form, notes, calls, bound, editLog, saving, mounted>>

\* Mutant: a call of the wrapper arms no timer.
RestartNever(d, at) == d

\* Mutant: a call while a timer is pending does not restart the wait.
RestartKeep(d, at) ==
    IF d.timerId # NoTimer THEN d ELSE [d EXCEPT !.timerId = at + d.wait]

\* debounce(func, wait) called: lodash (re)starts the wait from this call.
Restart(d, at) == [d EXCEPT !.timerId = at + d.wait]

\* Mutant: a call made while a save is unfinished is dropped.
NotifyOnIdle(g) ==
    /\ debounced' = IF saving # {} THEN debounced
                    ELSE [debounced EXCEPT ![g] =
                             [Restart(debounced[g], now) EXCEPT !.had = bound]]
    /\ notes' = Append(notes, [at |-> now, g |-> g, d |-> delay,
                               busy |-> saving # {}])

NotifyOn(g) ==
    /\ debounced' = [debounced EXCEPT ![g] = [Restart(debounced[g], now) EXCEPT !.had = bound]]
    /\ notes' = Append(notes, [at |-> now, g |-> g, d |-> delay,
                               busy |-> saving # {}])

Notify ==
    /\ Len(notes) < MaxNotes
    /\ NotifyOn(Current)
    /\ UNCHANGED <<now, delay, ref, form, calls, bound, editLog, saving, mounted>>

\* const func = () => { ref.current?.() }: what a run of func invokes.
func(cur) == cur

\* Mutant: timerId is cleared only after func has returned.
TrailingEdgeAfter(d, ok) == IF ok THEN [d EXCEPT !.timerId = NoTimer] ELSE d

\* lodash's trailing edge clears timerId before it invokes func, so the wrapper
\* is idle again whether or not func throws.
TrailingEdge(d, ok) == [d EXCEPT !.timerId = NoTimer]

\* The timer of wrapper g fires; the callback it runs returns (ok) or throws.
Expire(g, ok) ==
    /\ Armed(g)
    /\ debounced[g].timerId <= now
    /\ debounced' = [debounced EXCEPT ![g] = TrailingEdge(debounced[g], ok)]
    /\ calls' = Append(calls, [at |-> now, g |-> g, cur |-> Current,
                               arm |-> NotesOn(g), n |-> Len(notes),
                               ran |-> func(ref), ok |-> ok,
                               latest |-> bound, edits |-> Len(editLog),
                               live |-> mounted])
    /\ UNCHANGED <<now, delay, ref, form, notes, bound, editLog>>

\* The clock advances; a timer that is due fires before it does.
Advance(limit) ==
    /\ now < limit
    /\ \A g \in 1..Len(debounced) : Armed(g) => debounced[g].timerId > now
    /\ now' = now + Quantum
    /\ UNCHANGED <<delay, ref, debounced, form, notes, calls, bound, editLog,
                   saving, mounted>>

Tick == Advance(MaxTime)

\* ---------------------------------------------------------------- the form

\* The text an edit types: every edit types a text not seen before (the
\* project's own texts are 0).
NewTexts == { Len(editLog) + 1 }

\* Mutant: the display state is not set by the edit.
SetFieldLater(fm, field, value) == fm

\* setTitle / setSubhead / setDescription: the displayed state of one field.
SetField(fm, field, value) == [fm EXCEPT ![field] = value]

\* onSave: the closure of a render, calling updateProject with the full record.
OnSave(fm) ==
    [id |-> ProjectId, title |-> fm.title, subhead |-> fm.subhead,
     description |-> fm.description]

\* handleChange: the display state is set, the save closure of the new state is
\* bound and the debounced save is notified.
Edit(field, value) ==
    /\ mounted
    /\ Len(editLog) < MaxEdits
    /\ form' = SetField(form, field, value)
    /\ ref' = BindRef(ref, OnSave(form'))
    /\ bound' = << OnSave(form') >>
    /\ NotifyOn(Current)
    /\ editLog' = Append(editLog, [at |-> now, field |-> field, value |-> value])
    /\ UNCHANGED <<now, delay, calls, saving, mounted>>

\* The timer of wrapper g fires in the form: func runs onSave, which starts a
\* save; nothing awaits it.
FormExpire(g) ==
    /\ Expire(g, TRUE)
    /\ saving' = saving \cup { Len(calls) + 1 }
    /\ UNCHANGED mounted

\* updateProject finishes the save it was called for.
Complete(c) ==
    /\ c \in saving
    /\ saving' = saving \ {c}
    /\ UNCHANGED <<now, delay, ref, debounced, form, notes, calls, bound, editLog,
                   mounted>>

\* The form unmounts: the hook has no cleanup, so no wrapper is cancelled and
\* the ref keeps its callback.
Unmount ==
    /\ mounted
    /\ mounted' = FALSE
    /\ UNCHANGED <<now, delay, ref, debounced, form, notes, calls, bound, editLog,
                   saving>>

\* The form mounted: default delay, the save closure of the project bound.
FormInit ==
    /\ now = 0
    /\ delay = DefaultDelay
    /\ ref = << OnSave(InitialForm) >>
    /\ debounced = << Debounce(delay) >>
    /\ form = InitialForm
    /\ notes = << >>
    /\ calls = << >>
    /\ bound = << OnSave(InitialForm) >>
    /\ editLog = << >>
    /\ saving = {}
    /\ mounted = TRUE

\* ------------------------------------------------------- specifications

\* Mutant: func calls the slot without the optional call, and so throws on an
\* empty slot.
ReturnsStrict(cur) == cur = << "A" >>

\* Whether what func runs returns normally: an empty slot runs nothing.
Returns(cur) == cur # << "B" >>

Next ==
    \/ \E c \in Callbacks : Bind(c)
    \/ Notify
    \/ \E d \in Delays : Configure(d)
    \/ \E g \in 1..Len(debounced) :
          Expire(g, Returns(func(ref))) /\ UNCHANGED <<saving, mounted>>
    \/ Tick

Spec == Init /\ [][Next]_vars

\* A timer that is due fires.
TimerFires ==
    \E g \in 1..Len(debounced) :
        Expire(g, Returns(func(ref))) /\ UNCHANGED <<saving, mounted>>

\* The hook under a fair timer facility: the clock keeps advancing up to its
\* bound, and a timer that is due does fire.
LiveSpec == Init /\ [][Next]_vars /\ WF_vars(Tick) /\ WF_vars(TimerFires)

FormTick == Advance(MaxFormTime)

\* updateProject is asynchronous: its failure is a rejected promise, which does
\* not throw into func.  A save may finish at any time after it was started.
FormNext ==
    \/ \E f \in Fields, v \in NewTexts : Edit(f, v)
    \/ \E g \in 1..Len(debounced) : FormExpire(g)
    \/ \E c \in saving : Complete(c)
    \/ Unmount
    \/ FormTick

FormSpec == FormInit /\ [][FormNext]_vars

\* ------------------------------------------------- reading the histories

Wrappers == 1..Len(debounced)
NoteIx == 1..Len(notes)
CallIx == 1..Len(calls)

\* The notes made on the same wrapper as note i.
Peers(i) == { j \in NoteIx : notes[j].g = notes[i].g }

\* Note i is the Ord(i)-th note on its wrapper.
Ord(i) == Cardinality({ j \in Peers(i) : j <= i })

\* The runs of func by the timer that note i armed (or re-armed).
CallsFor(i) == { c \in CallIx : calls[c].g = notes[i].g /\ calls[c].arm = Ord(i) }

\* The next note on the same wrapper, 0 when note i is the latest there.
NextOn(i) ==
    IF \E j \in Peers(i) : j > i
    THEN CHOOSE j \in Peers(i) : j > i /\ \A k \in Peers(i) : k > i => j <= k
    ELSE 0

\* The time from note i to the next note on its wrapper.
Gap(i) == notes[NextOn(i)].at - notes[i].at

\* Notes k..m on one wrapper, each strictly less than the delay after the one before.
Burst(k, m) ==
    /\ k <= m
    /\ m \in Peers(k)
    /\ \A i \in Peers(k) : (k <= i /\ i < m) => Gap(i) < notes[i].d

\* Note m is the latest on its wrapper and its timer is still armed.
PendingAfter(m) == NextOn(m) = 0 /\ Armed(notes[m].g)

\* Note m was followed by a quiet period: its timer has fired, or the next note
\* on the wrapper came more than the delay later.
QuietAfter(m) ==
    \/ NextOn(m) = 0 /\ ~Armed(notes[m].g)
    \/ NextOn(m) # 0 /\ Gap(m) > notes[m].d

\* The runs of func by the timers of the notes k..m of one wrapper.
BurstCalls(k, m) == UNION { CallsFor(i) : i \in { j \in Peers(k) : k <= j /\ j <= m } }

\* Note i has exactly one run of func, at the delay after it.
OwnCall(i) ==
    \E c \in CallsFor(i) :
        /\ CallsFor(i) = {c}
        /\ calls[c].at = notes[i].at + notes[i].d

\* ------------------------------------------------------------- the claims

\* C1. Coalescing: a burst of notify calls on one wrapper, each strictly less
\* than the delay after the one before, gives no run of func while the latest of
\* them is pending, and once the quiet period after the burst has passed it has
\* given exactly one run, by the timer of the last notify of the burst, at the
\* delay after that notify; no run belongs to an earlier notify of the burst.
C1_Coalescing ==
    \A k \in NoteIx : \A m \in NoteIx :
        Burst(k, m) =>
            /\ PendingAfter(m) => BurstCalls(k, m) = {}
            /\ QuietAfter(m) =>
                  /\ BurstCalls(k, m) = CallsFor(m)
                  /\ OwnCall(m)

\* A burst of two notify calls at different instants has settled with its one run
\* of a bound callback.
C1_Witness ==
    \E k \in NoteIx : \E m \in NoteIx :
        /\ Burst(k, m)
        /\ notes[k].at < notes[m].at
        /\ QuietAfter(m)
        /\ \E c \in CallsFor(m) : calls[c].ran # Unset

\* C2. Latest binding wins: every run of func invokes the callback of the most
\* recent bind at the moment the timer fires (nothing, if none was bound), not
\* the one bound when notify was called.
C2_LatestBindingWins ==
    \A c \in CallIx : calls[c].ran = calls[c].latest

\* bind(A), notify, bind(B), no further notify: the run invoked B, and A never ran.
C2_Witness ==
    \E c \in CallIx :
        /\ calls[c].ran = << "B" >>
        /\ debounced[calls[c].g].had = << "A" >>
        /\ calls[c].arm = NotesOn(calls[c].g)
        /\ \A e \in CallIx : calls[e].ran # << "A" >>

\* C3. Separate quiet periods give separate invocations: when the next notify on
\* a wrapper comes more than the delay after a notify, the earlier one has its
\* own single run, at the delay after it, and so has the later one once its
\* quiet period has passed; each run invokes the callback bound when it fires.
C3_SeparateQuietPeriods ==
    \A i \in NoteIx :
        (NextOn(i) # 0 /\ Gap(i) > notes[i].d) =>
            /\ OwnCall(i)
            /\ QuietAfter(NextOn(i)) => OwnCall(NextOn(i))
            /\ \A c \in CallsFor(i) \cup CallsFor(NextOn(i)) :
                  calls[c].ran = calls[c].latest

\* Two notify calls more than the delay apart, two runs in all, invoking
\* different callbacks.
C3_Witness ==
    \E i \in NoteIx :
        /\ NextOn(i) # 0
        /\ Gap(i) > notes[i].d
        /\ Len(calls) = 2
        /\ \E c \in CallsFor(i) : \E e \in CallsFor(NextOn(i)) :
              /\ calls[c].ran # Unset
              /\ calls[e].ran # Unset
              /\ calls[c].ran # calls[e].ran

\* C4. Changing the delay while a timer is pending invalidates that timer:
\* stated as written, no bound callback is invoked by the timer of a wrapper
\* that a configure has replaced.  (The code does not cancel the replaced
\* wrapper, so this is violated.)
C4_ReplacedTimerNeverRuns ==
    \A c \in CallIx : calls[c].ran # Unset => calls[c].g = calls[c].cur

\* C5. bind alone never triggers an invocation: as long as notify has not been
\* called, whatever has been bound, func has not run and no timer is armed.
C5_BindAloneIdle ==
    notes = << >> => (calls = << >> /\ \A g \in Wrappers : ~Armed(g))

\* A callback is bound, more than the default delay has passed, no notify was made.
C5_Witness ==
    /\ notes = << >>
    /\ ref = << "B" >>
    /\ now > DefaultDelay

\* C6. bind changes only the slot: a step that changes the slot leaves every
\* wrapper (its timer, armed or not, and its expiry instant), the histories of
\* notify and of runs, the delay and the clock unchanged; a step that leaves the
\* delay unchanged creates no wrapper; and a notify leaves the slot unchanged.
C6_BindFrame ==
    [][ /\ (ref' # ref) =>
              /\ debounced' = debounced
              /\ notes' = notes
              /\ calls' = calls
              /\ delay' = delay
              /\ now' = now
        /\ (delay' = delay) => Len(debounced') = Len(debounced)
        /\ (notes' # notes) => (ref' = ref /\ bound' = bound) ]_vars

\* A callback was bound while the timer of the latest notify was pending: the
\* slot differs from what it held at the notify, and the timer is still due at
\* the delay after the notify.
C6_Witness ==
    /\ notes # << >>
    /\ notes[Len(notes)].g = Current
    /\ Armed(Current)
    /\ debounced[Current].had # Unset
    /\ ref # debounced[Current].had
    /\ now > notes[Len(notes)].at
    /\ debounced[Current].timerId = notes[Len(notes)].at + notes[Len(notes)].d

\* C7. A failing bound action does not break the scheduler: for a run of func
\* whose callback threw, the same timer made no other run (no retry); if no
\* notify followed on the wrapper, the wrapper is idle, its timer cleared; and if
\* notify calls followed, the latest of them is pending or has had its own run,
\* at the delay after it, of the callback bound when it fired.
C7_FailureHarmless ==
    \A c \in CallIx :
        ~calls[c].ok =>
            /\ \A e \in CallIx :
                  (calls[e].g = calls[c].g /\ calls[e].arm = calls[c].arm) => e = c
            /\ calls[c].arm = NotesOn(calls[c].g) => ~Armed(calls[c].g)
            /\ \A i \in NoteIx :
                  (notes[i].g = calls[c].g /\ Ord(i) > calls[c].arm /\ NextOn(i) = 0) =>
                      \/ Armed(calls[c].g)
                      \/ /\ OwnCall(i)
                         /\ \A e \in CallsFor(i) : calls[e].ran = calls[e].latest

\* A callback threw, then a later notify on the same wrapper led to another run
\* of a bound callback.
C7_Witness ==
    \E c \in CallIx : \E e \in CallIx :
        /\ ~calls[c].ok
        /\ calls[e].g = calls[c].g
        /\ calls[e].arm > calls[c].arm
        /\ calls[e].ran # Unset

\* The text of field f after the first n edits: that of the latest edit of f
\* among them, the project's own text if there is none.
LatestText(f, n) ==
    LET S == { i \in 1..n : editLog[i].field = f }
    IN IF S = {} THEN InitialForm[f]
       ELSE editLog[CHOOSE i \in S : \A j \in S : j <= i].value

\* C8. Every save carries the full, current record: each run invokes a save
\* whose record has the project's id and, for each field, the text of the latest
\* edit of that field made before the timer fired (the project's own text if the
\* field was never edited).
C8_FullCurrentRecord ==
    \A c \in CallIx :
        /\ calls[c].ran # Unset
        /\ calls[c].ran[1].id = ProjectId
        /\ \A f \in Fields : calls[c].ran[1][f] = LatestText(f, calls[c].edits)

\* One burst of three edits (the title twice, then the subhead) and one save,
\* carrying the second title, the subhead and the untouched description.
C8_Witness ==
    /\ Len(calls) = 1
    /\ calls[1].edits = 3
    /\ calls[1].ran[1].title = 2
    /\ calls[1].ran[1].subhead = 3
    /\ calls[1].ran[1].description = InitialForm.description

\* C9. Display state is updated immediately on every edit: in every state, so
\* also right after an edit and before any expiry or save, each displayed field
\* holds the text of its latest edit, whether or not a timer is pending.
C9_DisplayImmediate ==
    \A f \in Fields : form[f] = LatestText(f, Len(editLog))

\* Right after an edit made while the timer of an earlier edit was pending, and
\* before any save: the display shows the edited text.
C9_Witness ==
    /\ Len(editLog) >= 2
    /\ editLog[Len(editLog)].at = now
    /\ editLog[Len(editLog)].at > editLog[1].at
    /\ calls = << >>
    /\ Armed(Current)
    /\ form[editLog[Len(editLog)].field] = editLog[Len(editLog)].value

\* C10. State machine shape, its state part as written: in every state at most
\* one timer is armed.  (After a configure the replaced wrapper's timer stays
\* armed beside the new wrapper's, so this is violated.)
C10_AtMostOneTimer ==
    Cardinality({ g \in Wrappers : Armed(g) }) <= 1

\* C11. Never early, never more often than notified, as written: func has run
\* at most as often as notify was called, and whenever a bound callback is
\* invoked, at least the delay of the most recent notify has passed since that
\* notify.  (The timer of a wrapper that a configure replaced still fires, and
\* may do so sooner than the delay after a notify made since, so this is
\* violated.)
C11_NeverEarly ==
    /\ Len(calls) <= Len(notes)
    /\ \A c \in CallIx :
          calls[c].ran # Unset =>
              /\ calls[c].n >= 1
              /\ calls[c].at - notes[calls[c].n].at >= notes[calls[c].n].d

\* C15. Empty action slot is harmless: a run of func made while nothing had been
\* bound invokes nothing and does not throw; if no notify followed on the
\* wrapper, the wrapper is idle; and if notify calls followed, the latest of them
\* is pending or has had its own run, at the delay after it, of the callback
\* bound when it fired.
C15_EmptySlotHarmless ==
    \A c \in CallIx :
        calls[c].latest = Unset =>
            /\ calls[c].ran = Unset
            /\ calls[c].ok
            /\ calls[c].arm = NotesOn(calls[c].g) => ~Armed(calls[c].g)
            /\ \A i \in NoteIx :
                  (notes[i].g = calls[c].g /\ Ord(i) > calls[c].arm /\ NextOn(i) = 0) =>
                      \/ Armed(calls[c].g)
                      \/ /\ OwnCall(i)
                         /\ \A e \in CallsFor(i) : calls[e].ran = calls[e].latest

\* A timer expired on the empty slot; then a callback was bound and a later
\* notify on the same wrapper led to a run of it.
C15_Witness ==
    \E c \in CallIx : \E e \in CallIx :
        /\ calls[c].latest = Unset
        /\ calls[c].ran = Unset
        /\ calls[e].g = calls[c].g
        /\ calls[e].arm > calls[c].arm
        /\ calls[e].ran # Unset
        /\ calls[e].ran = calls[e].latest

\* Note i is the latest on its wrapper and its delay ends within the clock's bound.
NoteDue(i) ==
    /\ i <= Len(notes)
    /\ NextOn(i) = 0
    /\ notes[i].at + notes[i].d <= MaxTime

\* Note i was followed by another notify on its wrapper, or its timer has fired:
\* the wrapper is idle and func has run what was bound when it fired.
Served(i) ==
    /\ i <= Len(notes)
    /\ \/ NextOn(i) # 0
       \/ /\ ~Armed(notes[i].g)
          /\ \E c \in CallsFor(i) : calls[c].ran = calls[c].latest

\* C12. Liveness and reusability, under a fair timer facility: notify is
\* accepted in every state (within the bound on notify calls), and every notify
\* that no further notify on its wrapper follows leads to a run of func invoking
\* what is bound, after which the wrapper is idle; this holds for a notify made
\* after earlier runs as for the first.
C12_Liveness ==
    /\ [](Len(notes) < MaxNotes => ENABLED Notify)
    /\ \A i \in 1..MaxNotes : NoteDue(i) ~> Served(i)

\* A notify made after an earlier run on the same wrapper has itself led to a
\* run, and the wrapper is idle again.
C12_Witness ==
    \E i \in NoteIx :
        /\ Ord(i) >= 2
        /\ NextOn(i) = 0
        /\ ~Armed(notes[i].g)
        /\ CallsFor(i) # {}
        /\ \E c \in CallIx : calls[c].g = notes[i].g /\ calls[c].arm < Ord(i)

\* C13. No in-flight-aware suppression: an edit made while an earlier save is
\* unfinished is neither dropped nor merged with that save.  While it is the
\* latest edit its timer is armed for the delay after it, or has fired; and once
\* its quiet period has passed it has its own run, at the delay after it, which
\* starts a save of its own carrying that edit.
C13_NoSuppression ==
    \A i \in NoteIx :
        notes[i].busy =>
            /\ NextOn(i) = 0 =>
                  \/ debounced[notes[i].g].timerId = notes[i].at + notes[i].d
                  \/ OwnCall(i)
            /\ QuietAfter(i) =>
                  /\ OwnCall(i)
                  /\ \A c \in CallsFor(i) : calls[c].edits >= i

\* Two saves are unfinished at once: the later one was started by the timer of
\* an edit made while the earlier one was unfinished.
C13_Witness ==
    \E i \in NoteIx : \E c \in CallsFor(i) : \E e \in saving :
        /\ notes[i].busy
        /\ c \in saving
        /\ e < c
        /\ calls[c].ran # calls[e].ran

\* C14. Clear lifetime, no leaked timer, as written: no run of func, and so no
\* save, is made after the form has unmounted.  (The hook cancels nothing on
\* unmount, so a timer pending then still fires and saves: this is violated.)
C14_NoSaveAfterUnmount ==
    \A c \in CallIx : calls[c].live

====
